---- MODULE Spec2Model ----
(***************************************************************************)
(* Model of the mongodb-atlas tool (internal/tools/mongodb/mongodb.go):    *)
(* Config.Initialize binds a Tool to a configured query template, and      *)
(* Tool.Invoke dispatches on the configured operation kind (find,          *)
(* aggregate, vectorSearch, anything else).  Invoke is modelled statement  *)
(* by statement so that invocations of the same Tool value running in      *)
(* different goroutines interleave; the Go map behind Tool.Query is one    *)
(* shared object because Go maps are reference values.                     *)
(***************************************************************************)
EXTENDS Integers, Sequences, FiniteSets, TLC

VARIABLES
    Operation,   \* Tool.Operation
    cfgQuery,    \* the template as configured (cfg.Query at load time)
    Query,       \* the map behind Tool.Query, shared by every copy of the Tool
    pc,          \* where each goroutine is inside Invoke
    params,      \* params.AsMap() of the running invocation
    todo,        \* keys the range loop over params.AsMap() has not visited
    pipeline,    \* the local pipeline slice
    sent,        \* the request the store received from the invocation
    cursor,      \* the cursor of the invocation: none, open, closed
    opened,      \* whether the store ever handed the invocation a cursor
    delivered,   \* the items the cursor has delivered, in order
    storeEvent,  \* how the store ended the invocation's request
    results,     \* the local results slice
    ret,         \* what Invoke returned
    calls,       \* Invoke calls started
    crashed      \* the Go runtime aborted the process

vars == <<Operation, cfgQuery, Query, pc, params, todo, pipeline, sent,
          cursor, opened, delivered, storeEvent, results, ret,
          calls, crashed>>

----------------------------------------------------------------------------
(* Bounds of the model *)

\* total number of Invoke calls started in one behaviour
MaxInvokes == 2

\* largest number of items one cursor delivers
MaxDocs == 2

\* the goroutines that call Invoke on the one Tool value
Invocations == {"g1", "g2"}

----------------------------------------------------------------------------
(* Values *)

\* a Go value of dynamic type `type` (string, int, []interface{})
Val(type, val) == [type |-> type, val |-> val]

EmptyMap == [k \in {} |-> Val("int", "0")]

\* map assignment m[key] = value
MapSet(m, key, value) ==
    [k \in (DOMAIN m) \cup {key} |-> IF k = key THEN value ELSE m[k]]

\* delete(m, key)
MapDelete(m, key) == [k \in (DOMAIN m) \ {key} |-> m[k]]

\* cfg.Query as loaded from configuration
BaseQueries ==
    { [k \in {"name"} |-> Val("string", "Alice")],
      [k \in {"_id"} |-> Val("int", "0")] }

Operations == {"find", "aggregate", "vectorSearch", "update"}

ParamKeys == {"_id", "indexName", "embeddings", "path"}

\* the values a validated parameter of each name may carry
ParamVals(k) ==
    CASE k = "_id"        -> {Val("int", "1"), Val("int", "2")}
      [] k = "indexName"  -> {Val("string", "vec_idx"), Val("int", "7")}
      [] k = "embeddings" -> {Val("slice", "[0.1 0.2 0.3]"), Val("string", "0.1")}
      [] k = "path"       -> {Val("string", "embedding"), Val("int", "3")}

\* tools.ParamValues.AsMap(): name -> validated value, no duplicate keys
ParamMaps ==
    UNION { { f \in [D -> UNION {ParamVals(k) : k \in D}] :
                \A k \in D : f[k] \in ParamVals(k) } : D \in SUBSET ParamKeys }

\* documents of the collection
Docs ==
    { [_id |-> "1", name |-> "Alice", embedding |-> "[0.1 0.2 0.3]"],
      [_id |-> "2", name |-> "Bob"] }

\* an item of the store's stream: BSON that decodes into a document or not
Items == { [ok |-> TRUE, doc |-> d] : d \in Docs } \cup
         { [ok |-> FALSE, doc |-> [_id |-> "?"]] }

\* errors: a format string and its argument; nil is NoErr
Err(msg, arg) == [msg |-> msg, arg |-> arg]
NoErr == Err("", "")

\* errors the store reports
StoreRejected == "command failed"
CursorKilled  == "cursor killed"
CtxCanceled   == "context canceled"
BadBSON       == "invalid document"

NoCall == [call |-> "none", filter |-> EmptyMap, pipeline |-> <<>>]
NoRet  == [results |-> <<>>, err |-> NoErr]

----------------------------------------------------------------------------
(* Config.Initialize: the Tool's Query is the configuration's map itself *)

Init ==
    /\ Operation \in Operations
    /\ cfgQuery \in BaseQueries
    /\ Query = cfgQuery
    /\ pc = [i \in Invocations |-> "idle"]
    /\ params = [i \in Invocations |-> EmptyMap]
    /\ todo = [i \in Invocations |-> {}]
    /\ pipeline = [i \in Invocations |-> <<>>]
    /\ sent = [i \in Invocations |-> NoCall]
    /\ cursor = [i \in Invocations |-> "none"]
    /\ opened = [i \in Invocations |-> FALSE]
    /\ delivered = [i \in Invocations |-> <<>>]
    /\ storeEvent = [i \in Invocations |-> "none"]
    /\ results = [i \in Invocations |-> <<>>]
    /\ ret = [i \in Invocations |-> NoRet]
    /\ calls = 0
    /\ crashed = FALSE

----------------------------------------------------------------------------
(* Tool.Invoke *)

\* a return path that leaves the cursor as it is
DeferredCloseSkipped(c) == c

\* defer cursor.Close(ctx): runs on every return after the store call succeeded
DeferredClose(c) == IF c = "open" THEN "closed" ELSE c

\* return res, err (with the deferred calls)
Return(i, res, err) ==
    /\ pc' = [pc EXCEPT ![i] = "done"]
    /\ ret' = [ret EXCEPT ![i] = [results |-> res, err |-> err]]
    /\ cursor' = [cursor EXCEPT ![i] = DeferredClose(cursor[i])]

\* the error names the tool kind instead of the configured operation
UnsupportedErrNamesKind(op) == Err("unsupported operation: %s", "mongodb-atlas")

\* default branch of the switch
UnsupportedErr(op) == Err("unsupported operation: %s", op)

\* entry of Invoke and the switch on t.Operation
Invoke(i, p) ==
    /\ ~crashed
    /\ pc[i] \in {"idle", "done"}
    /\ calls < MaxInvokes
    /\ calls' = calls + 1
    /\ params' = [params EXCEPT ![i] = p]
    /\ todo' = [todo EXCEPT ![i] = DOMAIN p]
    /\ pipeline' = [pipeline EXCEPT ![i] = <<>>]
    /\ sent' = [sent EXCEPT ![i] = NoCall]
    /\ opened' = [opened EXCEPT ![i] = FALSE]
    /\ delivered' = [delivered EXCEPT ![i] = <<>>]
    /\ storeEvent' = [storeEvent EXCEPT ![i] = "none"]
    /\ results' = [results EXCEPT ![i] = <<>>]
    /\ cursor' = [cursor EXCEPT ![i] = "none"]
    /\ IF Operation \in {"find", "aggregate", "vectorSearch"}
       THEN /\ pc' = [pc EXCEPT ![i] = "overlay"]
            /\ ret' = [ret EXCEPT ![i] = NoRet]
       ELSE /\ pc' = [pc EXCEPT ![i] = "done"]
            /\ ret' = [ret EXCEPT ![i] = [results |-> <<>>, err |-> UnsupportedErr(Operation)]]
    /\ UNCHANGED <<Operation, cfgQuery, Query, crashed>>

\* one iteration of `for key, value := range params.AsMap()`: filter is the
\* map t.Query itself, so the assignment writes the shared template; the
\* aggregate branch also appends the stage bson.M{key: value}
Overlay(i) ==
    /\ ~crashed
    /\ pc[i] = "overlay"
    /\ \E key \in todo[i] :
        /\ Query' = MapSet(Query, key, params[i][key])
        /\ todo' = [todo EXCEPT ![i] = @ \ {key}]
        /\ pipeline' = [pipeline EXCEPT ![i] =
                          IF Operation = "aggregate"
                          THEN Append(@, [k \in {key} |-> params[i][key]])
                          ELSE @]
    /\ UNCHANGED <<Operation, cfgQuery, pc, params, sent, cursor, opened,
                   delivered, storeEvent, results, ret, calls, crashed>>

\* collection.Find(ctx, filter): the store rejects the request (or the
\* context is already cancelled), or hands back a cursor
Find(i) ==
    /\ ~crashed
    /\ pc[i] = "overlay" /\ todo[i] = {} /\ Operation = "find"
    /\ sent' = [sent EXCEPT ![i] = [call |-> "Find", filter |-> Query, pipeline |-> <<>>]]
    /\ \/ \E cause \in {"rejected", "cancelled"} :
            /\ storeEvent' = [storeEvent EXCEPT ![i] = cause]
            /\ Return(i, <<>>, Err("unable to execute query: %w",
                                   IF cause = "rejected" THEN StoreRejected ELSE CtxCanceled))
            /\ UNCHANGED opened
       \/ /\ cursor' = [cursor EXCEPT ![i] = "open"]
          /\ opened' = [opened EXCEPT ![i] = TRUE]
          /\ pc' = [pc EXCEPT ![i] = "next"]
          /\ UNCHANGED <<storeEvent, ret>>
    /\ UNCHANGED <<Operation, cfgQuery, Query, params, todo, pipeline,
                   delivered, results, calls, crashed>>

\* the aggregate branch returning an empty success
AggregateRefuseSilent(i) ==
    /\ ~crashed
    /\ pc[i] = "overlay" /\ todo[i] = {} /\ Operation = "aggregate"
    /\ Return(i, <<>>, NoErr)
    /\ UNCHANGED <<Operation, cfgQuery, Query, params, todo, pipeline, sent,
                   opened, delivered, storeEvent, results, calls, crashed>>

\* end of the aggregate branch: print filter and pipeline, refuse
AggregateRefuse(i) ==
    /\ ~crashed
    /\ pc[i] = "overlay" /\ todo[i] = {} /\ Operation = "aggregate"
    /\ Return(i, <<>>, Err("aggregate operation not implemented", ""))
    /\ UNCHANGED <<Operation, cfgQuery, Query, params, todo, pipeline, sent,
                   opened, delivered, storeEvent, results, calls, crashed>>

\* v, ok := m[key].(T)
HasType(m, key, type) == key \in DOMAIN m /\ m[key].type = type

\* the assertions with the messages of indexName and embeddings exchanged
ParamErrorMisnamed(p) ==
    IF ~HasType(p, "indexName", "string")
    THEN Err("invalid or missing embeddings for aggregate operation", "")
    ELSE IF ~HasType(p, "embeddings", "slice")
    THEN Err("invalid or missing indexName for aggregate operation", "")
    ELSE IF ~HasType(p, "path", "string")
    THEN Err("invalid or missing path for aggregate operation", "")
    ELSE NoErr

\* the three type assertions of the vectorSearch branch, in source order
ParamError(p) ==
    IF ~HasType(p, "indexName", "string")
    THEN Err("invalid or missing indexName for aggregate operation", "")
    ELSE IF ~HasType(p, "embeddings", "slice")
    THEN Err("invalid or missing embeddings for aggregate operation", "")
    ELSE IF ~HasType(p, "path", "string")
    THEN Err("invalid or missing path for aggregate operation", "")
    ELSE NoErr

NumCandidates == 10
Limit == 10

\* the $vectorSearch stage
VectorSearchStage(indexName, embeddings, path) ==
    [k \in {"$vectorSearch"} |->
        [index |-> indexName, queryVector |-> embeddings, path |-> path,
         numCandidates |-> NumCandidates, limit |-> Limit]]

\* vectorSearch branch after the overlay loop: check the three parameters,
\* append the $vectorSearch stage
VectorSearchBuild(i) ==
    /\ ~crashed
    /\ pc[i] = "overlay" /\ todo[i] = {} /\ Operation = "vectorSearch"
    /\ IF ParamError(params[i]) # NoErr
       THEN /\ Return(i, <<>>, ParamError(params[i]))
            /\ UNCHANGED pipeline
       ELSE /\ pipeline' = [pipeline EXCEPT ![i] =
                   Append(@, VectorSearchStage(params[i]["indexName"].val,
                                               params[i]["embeddings"].val,
                                               params[i]["path"].val))]
            /\ pc' = [pc EXCEPT ![i] = "aggregate"]
            /\ UNCHANGED <<ret, cursor>>
    /\ UNCHANGED <<Operation, cfgQuery, Query, params, todo, sent, opened,
                   delivered, storeEvent, results, calls, crashed>>

\* collection.Aggregate(ctx, pipeline)
Aggregate(i) ==
    /\ ~crashed
    /\ pc[i] = "aggregate"
    /\ sent' = [sent EXCEPT ![i] = [call |-> "Aggregate", filter |-> EmptyMap,
                                    pipeline |-> pipeline[i]]]
    /\ \/ \E cause \in {"rejected", "cancelled"} :
            /\ storeEvent' = [storeEvent EXCEPT ![i] = cause]
            /\ Return(i, <<>>, Err("unable to execute aggregate query: %w",
                                   IF cause = "rejected" THEN StoreRejected ELSE CtxCanceled))
            /\ UNCHANGED opened
       \/ /\ cursor' = [cursor EXCEPT ![i] = "open"]
          /\ opened' = [opened EXCEPT ![i] = TRUE]
          /\ pc' = [pc EXCEPT ![i] = "next"]
          /\ UNCHANGED <<storeEvent, ret>>
    /\ UNCHANGED <<Operation, cfgQuery, Query, params, todo, pipeline,
                   delivered, results, calls, crashed>>

\* cursor.Decode(&doc) into a map[string]any
Decode(item) ==
    IF item.ok THEN [doc |-> item.doc, err |-> NoErr]
    ELSE [doc |-> EmptyMap, err |-> Err("unable to parse document: %w", BadBSON)]

\* the loop body without delete(doc, path)
ShapedKeepsPath(doc, p) == doc

\* what the loop body appends: the vectorSearch branch deletes doc[path] first
Shaped(doc, p) ==
    IF Operation = "vectorSearch" THEN MapDelete(doc, p["path"].val) ELSE doc

\* the document put in front of the slice
AccumulateFront(res, doc) == <<doc>> \o res

\* results = append(results, doc)
Accumulate(res, doc) == Append(res, doc)

\* cursor.Next(ctx) returned true: decode the item, append it or return the
\* decode error
NextItem(i) ==
    /\ ~crashed
    /\ pc[i] = "next"
    /\ Len(delivered[i]) < MaxDocs
    /\ \E item \in Items :
        /\ delivered' = [delivered EXCEPT ![i] = Append(@, item)]
        /\ IF Decode(item).err # NoErr
           THEN /\ storeEvent' = [storeEvent EXCEPT ![i] = "undecodable"]
                /\ Return(i, <<>>, Decode(item).err)
                /\ UNCHANGED results
           ELSE /\ results' = [results EXCEPT ![i] =
                                 Accumulate(@, Shaped(Decode(item).doc, params[i]))]
                /\ UNCHANGED <<storeEvent, pc, ret, cursor>>
    /\ UNCHANGED <<Operation, cfgQuery, Query, params, todo, pipeline, sent,
                   opened, calls, crashed>>

\* the loop's end without the cursor.Err() check
CursorErrIgnored(event) == NoErr

\* cursor.Err() after the loop
CursorErr(event) ==
    CASE event = "exhausted" -> NoErr
      [] event = "killed"    -> Err("cursor error: %w", CursorKilled)
      [] event = "cancelled" -> Err("cursor error: %w", CtxCanceled)

\* cursor.Next(ctx) returned false: the stream is exhausted, ended abnormally
\* or the context was cancelled; check cursor.Err() and return
NextEnd(i) ==
    /\ ~crashed
    /\ pc[i] = "next"
    /\ \E event \in {"exhausted", "killed", "cancelled"} :
        /\ storeEvent' = [storeEvent EXCEPT ![i] = event]
        /\ IF CursorErr(event) # NoErr
           THEN Return(i, <<>>, CursorErr(event))
           ELSE Return(i, results[i], NoErr)
    /\ UNCHANGED <<Operation, cfgQuery, Query, params, todo, pipeline, sent,
                   opened, delivered, results, calls, crashed>>

\* an invocation that accesses the shared map: a writer in the overlay loop,
\* a reader marshalling or printing the filter
Writing(i) == pc[i] = "overlay" /\ todo[i] # {}
Reading(i) == pc[i] = "overlay" /\ todo[i] = {} /\ Operation \in {"find", "aggregate"}

\* two goroutines access the map at once and one of them writes: the Go
\* runtime may abort with "concurrent map writes" (or "concurrent map read
\* and map write"); otherwise the accesses land in some order
Crash ==
    /\ ~crashed
    /\ \E i, j \in Invocations :
        i # j /\ Writing(i) /\ (Writing(j) \/ Reading(j))
    /\ crashed' = TRUE
    /\ UNCHANGED <<Operation, cfgQuery, Query, pc, params, todo, pipeline, sent,
                   cursor, opened, delivered, storeEvent, results, ret, calls>>

Step(i) ==
    \/ Overlay(i)
    \/ Find(i)
    \/ AggregateRefuse(i)
    \/ VectorSearchBuild(i)
    \/ Aggregate(i)
    \/ NextItem(i)
    \/ NextEnd(i)

\* the parameter maps of the concurrent runs
RaceParams ==
    { p \in ParamMaps : DOMAIN p = {"_id"} } \cup
    { p \in ParamMaps : ParamError(p) = NoErr /\ "_id" \notin DOMAIN p }

Next ==
    \/ \E i \in Invocations : \E p \in RaceParams : Invoke(i, p)
    \/ \E i \in Invocations : Step(i)
    \/ Crash

\* two goroutines invoke the same Tool concurrently
Spec == Init /\ [][Next]_vars

SeqNext ==
    \/ \E p \in ParamMaps : Invoke("g1", p)
    \/ Step("g1")

\* one caller invokes the Tool again and again, with every parameter map
SeqSpec == Init /\ [][SeqNext]_vars

----------------------------------------------------------------------------
(* Properties *)

Finished(i) == pc[i] = "done"
Quiescent == \A i \in Invocations : pc[i] \in {"idle", "done"}
Succeeded(i) == Finished(i) /\ ret[i].err = NoErr

\* C1: whenever no invocation is running, the Tool's stored query template
\* equals the template it was configured with
C1_TemplatePreserved == (Quiescent /\ ~crashed) => Query = cfgQuery

\* the template overlaid with every parameter (what a fresh copy would hold)
Overlaid(base, p) ==
    [k \in (DOMAIN base) \cup (DOMAIN p) |-> IF k \in DOMAIN p THEN p[k] ELSE base[k]]

\* C2: while another invocation of the same Tool is in flight, the filter a
\* find invocation handed to the store is the configured template overlaid
\* with that invocation's own parameters only
C2_OwnOverlayOnly ==
    \A i \in Invocations :
        (/\ sent[i].call = "Find"
         /\ \E j \in Invocations \ {i} : pc[j] \notin {"idle", "done"})
        => sent[i].filter = Overlaid(cfgQuery, params[i])

\* C3: a successful vectorSearch invocation with parameters sent a pipeline
\* of at least two stages: an equality ($match) stage carrying the
\* parameters first, the $vectorSearch stage last
C3_MatchStageBeforeSearch ==
    \A i \in Invocations :
        (Operation = "vectorSearch" /\ Succeeded(i) /\ DOMAIN params[i] # {})
        => LET pl == sent[i].pipeline IN
           /\ Len(pl) >= 2
           /\ DOMAIN pl[1] = {"$match"}
           /\ DOMAIN pl[Len(pl)] = {"$vectorSearch"}

\* the parameters the vectorSearch branch requires, with their types
RequiredType(k) ==
    CASE k = "indexName" -> "string" [] k = "embeddings" -> "slice" [] k = "path" -> "string"

NamingMsg(k) ==
    CASE k = "indexName"  -> "invalid or missing indexName for aggregate operation"
      [] k = "embeddings" -> "invalid or missing embeddings for aggregate operation"
      [] k = "path"       -> "invalid or missing path for aggregate operation"

Defective(p) ==
    { k \in {"indexName", "embeddings", "path"} :
        k \notin DOMAIN p \/ p[k].type # RequiredType(k) }

\* C4: a vectorSearch invocation whose parameters lack indexName, embeddings
\* or path, or carry one with the wrong type, never calls the store, and
\* returns no results and an error naming a failing parameter; a missing
\* indexName is the one named
C4_ParamErrorBeforeStore ==
    \A i \in Invocations :
        (Operation = "vectorSearch" /\ pc[i] # "idle" /\ Defective(params[i]) # {})
        => /\ sent[i].call = "none"
           /\ cursor[i] = "none"
           /\ Finished(i) =>
                /\ ret[i].results = <<>>
                /\ ret[i].err.msg \in { NamingMsg(k) : k \in Defective(params[i]) }
                /\ "indexName" \notin DOMAIN params[i]
                     => ret[i].err.msg = NamingMsg("indexName")

\* a finished vectorSearch call with a wrong-typed embeddings and no path
C4_Witness ==
    \E i \in Invocations :
        /\ Operation = "vectorSearch" /\ Finished(i)
        /\ Defective(params[i]) = {"embeddings", "path"}
        /\ "embeddings" \in DOMAIN params[i]
        /\ ret[i].err.msg = NamingMsg("embeddings")

\* C5: a successful vectorSearch invocation sent a pipeline whose last stage
\* is $vectorSearch with the given index, query vector and path and with
\* numCandidates = 10 and limit = 10, and no returned document has the
\* field named by path
C5_SearchStageAndStrippedPath ==
    \A i \in Invocations :
        (Operation = "vectorSearch" /\ Succeeded(i))
        => LET p == params[i]
               pl == sent[i].pipeline IN
           /\ sent[i].call = "Aggregate"
           /\ Len(pl) >= 1
           /\ pl[Len(pl)] =
                [k \in {"$vectorSearch"} |->
                    [index |-> p["indexName"].val,
                     queryVector |-> p["embeddings"].val,
                     path |-> p["path"].val,
                     numCandidates |-> 10, limit |-> 10]]
           /\ \A n \in 1..Len(ret[i].results) :
                p["path"].val \notin DOMAIN ret[i].results[n]

\* a successful vectorSearch call that returned a document the store
\* delivered with the embedding field
C5_Witness ==
    \E i \in Invocations :
        /\ Operation = "vectorSearch" /\ Succeeded(i)
        /\ Len(ret[i].results) >= 1
        /\ \E n \in 1..Len(delivered[i]) : "embedding" \in DOMAIN delivered[i][n].doc

\* C6: an invocation of an aggregate Tool never calls the store, and returns
\* the "not implemented" error with no results
C6_AggregateRefuses ==
    \A i \in Invocations :
        Operation = "aggregate"
        => /\ sent[i].call = "none"
           /\ cursor[i] = "none"
           /\ Finished(i) =>
                /\ ret[i].err = Err("aggregate operation not implemented", "")
                /\ ret[i].results = <<>>

\* a finished aggregate call that had built a two-stage pipeline
C6_Witness ==
    \E i \in Invocations :
        Operation = "aggregate" /\ Finished(i) /\ Len(pipeline[i]) = 2

\* the documents of the items a cursor delivered, in order
DeliveredDocs(i) == [n \in 1..Len(delivered[i]) |-> delivered[i][n].doc]

\* C7: a successful find invocation returns exactly the documents its cursor
\* delivered, in the order delivered; with none delivered it returns an empty
\* sequence and no error
C7_FindReturnsStream ==
    \A i \in Invocations :
        (Operation = "find" /\ Finished(i))
        => /\ ret[i].err = NoErr => ret[i].results = DeliveredDocs(i)
           /\ (storeEvent[i] = "exhausted" /\ delivered[i] = <<>>)
                => (ret[i].err = NoErr /\ ret[i].results = <<>>)

\* a successful find call that returned two different documents
C7_Witness ==
    \E i \in Invocations :
        /\ Operation = "find" /\ Succeeded(i)
        /\ Len(ret[i].results) = 2
        /\ ret[i].results[1] # ret[i].results[2]

\* C8: an invocation of a Tool whose operation is none of find, aggregate,
\* vectorSearch returns at once, with no results and the unsupported-operation
\* error naming the operation, and never calls the store
C8_UnsupportedOperation ==
    \A i \in Invocations :
        Operation \notin {"find", "aggregate", "vectorSearch"}
        => /\ pc[i] \in {"idle", "done"}
           /\ sent[i].call = "none"
           /\ cursor[i] = "none"
           /\ Finished(i) =>
                /\ ret[i].err.msg = "unsupported operation: %s"
                /\ ret[i].err.arg = Operation
                /\ ret[i].results = <<>>

\* a finished call on a Tool configured with operation "update"
C8_Witness ==
    \E i \in Invocations :
        Operation = "update" /\ Finished(i) /\ DOMAIN params[i] # {}

\* C9: an invocation that has returned holds no open cursor; a cursor the
\* store handed out is closed by the return, and a closed cursor was opened
C9_CursorClosedOnReturn ==
    \A i \in Invocations :
        /\ Finished(i) => cursor[i] # "open"
        /\ (Finished(i) /\ opened[i]) => cursor[i] = "closed"
        /\ cursor[i] = "closed" => opened[i]

\* a call that returned on cancellation in the read loop, after an item
C9_Witness ==
    \E i \in Invocations :
        /\ Finished(i) /\ opened[i] /\ storeEvent[i] = "cancelled"
        /\ Len(delivered[i]) >= 1

\* C10: a find or vectorSearch invocation that the store failed (rejected
\* request, undecodable item, abnormal end of the stream, cancellation)
\* returns the error of that failure and no results
C10_StoreFailureReported ==
    \A i \in Invocations :
        Finished(i)
        => /\ storeEvent[i] = "rejected"
                => /\ ret[i].err.msg \in {"unable to execute query: %w",
                                          "unable to execute aggregate query: %w"}
                   /\ ret[i].err.arg = StoreRejected
                   /\ ret[i].results = <<>>
           /\ storeEvent[i] = "undecodable"
                => /\ ret[i].err.msg = "unable to parse document: %w"
                   /\ ret[i].results = <<>>
           /\ storeEvent[i] = "killed"
                => /\ ret[i].err = Err("cursor error: %w", CursorKilled)
                   /\ ret[i].results = <<>>
           /\ storeEvent[i] = "cancelled"
                => /\ ret[i].err.arg = CtxCanceled
                   /\ ret[i].results = <<>>

\* a call whose stream ended abnormally after a document had been decoded
C10_Witness ==
    \E i \in Invocations :
        /\ Finished(i) /\ storeEvent[i] = "killed"
        /\ Len(results[i]) >= 1
====
